---- MODULE Spec2Model ----
(***************************************************************************)
(* A model of scranfilize (src/scranfilize.c): the DIMACS CNF parser, the  *)
(* seeded rank generator, the flip selector and the scramble emitter, as   *)
(* run by main: init, parse, scramble (rank, rank, flip), print, reset.    *)
(*                                                                         *)
(* Real-valued quantities are kept exactly as integers:                    *)
(*   - option values (probabilities, windows) in hundredths, so the        *)
(*     defaults 0.01 and 1.0 are 1 and 100 and the initial -1 is -100;     *)
(*   - a draw of drand48 as the numerator u of u / RandMod, 0 <= u <       *)
(*     RandMod, the generator being libc's linear congruential generator   *)
(*     narrowed from 48 bits to RandBits bits;                             *)
(*   - a sort key in units of 1 / (100 * RandMod).                         *)
(* Allocation is taken to succeed; line numbers and the texts written to   *)
(* stderr by msg () are left out.                                          *)
(***************************************************************************)
EXTENDS Integers, Sequences, FiniteSets, TLC

(* ------------------------------ bounds -------------------------------- *)

\* Largest seed tried (option -s, or the hash of time and process id).
MaxSeed == 1
\* Width in bits of the narrowed generator state.
RandBits == 2
\* Largest single decimal digit used for a number of the input text.
MaxDigit == 2
\* Largest number of literal tokens (terminating zeros included) read from
\* the body of the input.
MaxTokens == 4
\* Largest n the rank generator is tried on in isolation.
MaxN == 3

(* -------------------------- program constants ------------------------- *)

\* INT_MAX of <limits.h>.
IntMax == 2147483647
\* The initial -1 of the three real-valued options, in hundredths.
Unset == -100
\* The default literal flip probability .01, in hundredths.
DefaultFlip == 1
\* The default relative window .01 and absolute window 1.0, in hundredths.
DefaultRelativeWindow == 1
DefaultAbsoluteWindow == 100

(* ------------------------------- state -------------------------------- *)

VARIABLES
  pc,                       \* position of main
  status,                   \* exit status, -1 while running
  err,                      \* the message of die () or parse_error ()
  seed, permute_variables, permute_clauses, reverse_variables,
  reverse_clauses, literal_flip_probability, variable_move_window,
  clause_move_window, absolute_windows, force,
  scrambled,                \* the destination path, NoPath for <stdout>
  header_text,              \* the two numbers of the header as read
  ch,                       \* parse: the character read last
  max_var, specified_clauses, num_clauses, clauses,
  literals,                 \* parse: the literal stack (num_literals = Len)
  tok,                      \* parse: <<sign, idx>> of the literal being read,
                            \* <<>> outside the literal branch
  xsubi,                    \* the state of the drand48 generator
  variable_map, clause_map, flipped,
  out,                      \* the lines written to the destination
  i,                        \* print: the clause loop's index
  run2,                     \* a second run on the same command line and
                            \* input: the argument s of -s, its seed, its maps
  rk                        \* the rank generator run in isolation

options == <<seed, permute_variables, permute_clauses, reverse_variables,
             reverse_clauses, literal_flip_probability, variable_move_window,
             clause_move_window, absolute_windows, force, scrambled>>
cnf == <<header_text, ch, max_var, specified_clauses, num_clauses, clauses,
         literals, tok>>
maps == <<xsubi, variable_map, clause_map, flipped>>
vars == <<pc, status, err, options, cnf, maps, out, i, run2, rk>>

(* ------------------------------ helpers ------------------------------- *)

NoPath == "<null>"
EOF == "EOF"
NoErr == [msg |-> "", num |-> 0]
NoRank == [phase |-> "off"]

\* die (msg, ...): the message, exit (1).
Die(m, n) ==
  /\ pc' = "exit"
  /\ status' = 1
  /\ err' = [msg |-> m, num |-> n]

\* parse_error (path, lineno, msg, ...): the message, exit (1).
ParseError(m, n) ==
  /\ pc' = "exit"
  /\ status' = 1
  /\ err' = [msg |-> m, num |-> n]

\* banner (file, print): the comment lines, as one entry.
Banner == [kind |-> "c", nums |-> <<>>]

(* ------------------------------- input -------------------------------- *)

\* The decimal digits, the digit d at index d + 1.
DigitChar == <<"0", "1", "2", "3", "4", "5", "6", "7", "8", "9">>
Digits == {DigitChar[d] : d \in 1..10}
DigitVal(c) == CHOOSE d \in 0..9 : DigitChar[d + 1] = c
SmallDigits == {DigitChar[d + 1] : d \in 0..MaxDigit}

\* The characters next () is tried with: digits, white space, the comment
\* and sign characters, a character that belongs nowhere, and end of file.
Chars == SmallDigits \cup {" ", "\n", "c", "-", "x", EOF}

\* The decimal numbers of the input text: one digit, a leading zero, and
\* two that do not fit an int (INT_MAX + 1 and 2222222222).
NumTexts ==
  {<<d>> : d \in SmallDigits} \cup
  { <<"0", "1">>,
    <<"2", "1", "4", "7", "4", "8", "3", "6", "4", "8">>,
    <<"2", "2", "2", "2", "2", "2", "2", "2", "2", "2">> }
\* The digits that may follow a first digit, in the numbers texts.
Tails(texts, first) == {Tail(t) : t \in {x \in texts : Head(x) = first}}

\* The input a run of the parser is tried on: the characters, the numbers and
\* the number of literal tokens.
RichInput == [chars |-> Chars, texts |-> NumTexts, tokens |-> MaxTokens]
\* A smaller one: no blank, no sign, no stray character, one-digit numbers,
\* two tokens less.
SmallInput ==
  [chars |-> Chars \ {" ", "-", "x"},
   texts |-> {<<d>> : d \in SmallDigits},
   tokens |-> MaxTokens - 2]

Seeds == 0..MaxSeed
\* The values of -f, -v and -c, in hundredths; Unset when the option is absent.
FlipArgs == {Unset, 0, 100}
WindowArgs == {Unset, 0, 500}
Paths == {NoPath, "scrambled.cnf"}

\* The command lines a run is tried on. s is the argument of -s (-1: no -s);
\* p, P, r, R, a, fo whether -p, -P, -r, -R, -a, --force are given; f, v, c
\* the arguments of -f, -v, -c; dst the second file argument.
AllArgs ==
  [s : Seeds \cup {-1}, p : BOOLEAN, P : BOOLEAN, r : BOOLEAN, R : BOOLEAN,
   a : BOOLEAN, fo : BOOLEAN, f : FlipArgs, v : WindowArgs, c : WindowArgs,
   dst : Paths]
\* A few of them: no option at all; the options that change nothing; full
\* permutations; reversals; wide windows, relative and absolute; an existing
\* destination with and without --force; three conflicts.
NoArgs ==
  [s |-> -1, p |-> FALSE, P |-> FALSE, r |-> FALSE, R |-> FALSE, a |-> FALSE,
   fo |-> FALSE, f |-> Unset, v |-> Unset, c |-> Unset, dst |-> NoPath]
FewArgs ==
  { NoArgs,
    [NoArgs EXCEPT !.f = 0, !.v = 0, !.c = 0],
    [NoArgs EXCEPT !.s = 0, !.p = TRUE, !.P = TRUE, !.f = 100],
    [NoArgs EXCEPT !.r = TRUE, !.R = TRUE, !.a = TRUE, !.v = 500, !.c = 500,
                   !.dst = "scrambled.cnf"],
    [NoArgs EXCEPT !.s = 0, !.r = TRUE, !.f = 100, !.c = 500],
    [NoArgs EXCEPT !.s = 1, !.R = TRUE, !.v = 500, !.fo = TRUE,
                   !.dst = "scrambled.cnf"],
    [NoArgs EXCEPT !.p = TRUE, !.r = TRUE],
    [NoArgs EXCEPT !.P = TRUE, !.c = 0],
    [NoArgs EXCEPT !.a = TRUE, !.p = TRUE] }

(* ------------------------------- init --------------------------------- *)

InitMain ==
  /\ pc = "init"
  /\ status = -1
  /\ err = NoErr
  /\ seed = -1
  /\ permute_variables = FALSE
  /\ permute_clauses = FALSE
  /\ reverse_variables = FALSE
  /\ reverse_clauses = FALSE
  /\ literal_flip_probability = Unset
  /\ variable_move_window = Unset
  /\ clause_move_window = Unset
  /\ absolute_windows = FALSE
  /\ force = FALSE
  /\ scrambled = NoPath
  /\ header_text = <<>>
  /\ ch = ""
  /\ max_var = 0
  /\ specified_clauses = 0
  /\ num_clauses = 0
  /\ clauses = <<>>
  /\ literals = <<>>
  /\ tok = <<>>
  /\ xsubi = 0
  /\ variable_map = <<>>
  /\ clause_map = <<>>
  /\ flipped = <<>>
  /\ out = <<>>
  /\ i = 0
  /\ run2 = [s |-> -1, seed |-> -1, variable_map |-> <<>>, clause_map |-> <<>>,
             flipped |-> <<>>]

Init == InitMain /\ rk = NoRank

\* The first conflict among the options, "" when there is none.
OptionConflict(p, P, r, R, v, c, a) ==
  IF p /\ r THEN "can not combine '-p' and '-r'"
  ELSE IF p /\ v >= 0 THEN "can not combine '-p' and '-v'"
  ELSE IF p /\ a THEN "can not combine '-p' and '-a'"
  ELSE IF P /\ R THEN "can not combine '-P' and '-R'"
  ELSE IF P /\ c >= 0 THEN "can not combine '-P' and '-c'"
  ELSE IF P /\ a THEN "can not combine '-P' and '-a'"
  ELSE ""

\* The window used when -v or -c is absent.
DefaultWindow(a) == IF a THEN DefaultAbsoluteWindow ELSE DefaultRelativeWindow

\* Fault: the seed is hashed even when -s is given.
EffectiveSeed_hashed(s, hashed) == hashed

\* The seed of a run: the argument s of -s, or without -s the hash of time
\* and process id.
EffectiveSeed(s, hashed) == IF s < 0 THEN hashed ELSE s

\* init (argc, argv): the options are set from the command line (each given
\* at most once, with a valid argument), conflicts are fatal, an absent
\* seed is hashed from time and process id, absent values get their
\* defaults, and the banner goes to <stdout>. The second run hashes its
\* own time and process id.
InitArgs(args) ==
  /\ pc = "init"
  /\ \E g \in args, hashed, hashed2 \in Seeds :
       /\ permute_variables' = g.p
       /\ permute_clauses' = g.P
       /\ reverse_variables' = g.r
       /\ reverse_clauses' = g.R
       /\ absolute_windows' = g.a
       /\ force' = g.fo
       /\ scrambled' = g.dst
       /\ IF OptionConflict(g.p, g.P, g.r, g.R, g.v, g.c, g.a) # ""
          THEN /\ Die(OptionConflict(g.p, g.P, g.r, g.R, g.v, g.c, g.a), 0)
               /\ seed' = g.s
               /\ literal_flip_probability' = g.f
               /\ variable_move_window' = g.v
               /\ clause_move_window' = g.c
               /\ out' = out
               /\ run2' = [run2 EXCEPT !.s = g.s, !.seed = g.s]
          ELSE /\ pc' = "header"
               /\ status' = status
               /\ err' = err
               /\ seed' = EffectiveSeed(g.s, hashed)
               /\ run2' = [run2 EXCEPT !.s = g.s,
                                       !.seed = EffectiveSeed(g.s, hashed2)]
               /\ literal_flip_probability' = IF g.f < 0 THEN DefaultFlip ELSE g.f
               /\ variable_move_window' = IF g.v < 0 THEN DefaultWindow(g.a) ELSE g.v
               /\ clause_move_window' = IF g.c < 0 THEN DefaultWindow(g.a) ELSE g.c
               /\ out' = IF g.dst = NoPath THEN Append(out, Banner) ELSE out
  /\ UNCHANGED <<cnf, maps, i, rk>>

(* ------------------------------- parse -------------------------------- *)

\* space (ch)
space(c) == c \in {" ", "\t", "\r", "\n"}
\* isdigit (ch)
isdigit(c) == c \in Digits

\* The digit loop of a number: acc is the value so far, tail the digits
\* still to read. over is "way" or "too" when the value does not fit an
\* int, and val is the variable's value at that point.
RECURSIVE Accumulate(_, _)
Accumulate(acc, tail) ==
  IF tail = <<>> THEN [over |-> "", val |-> acc]
  ELSE IF IntMax \div 10 < acc THEN [over |-> "way", val |-> acc]
  ELSE LET digit == DigitVal(Head(tail))
           t == acc * 10
       IN  IF IntMax - digit < t THEN [over |-> "too", val |-> t]
           ELSE Accumulate(t + digit, Tail(tail))

\* An error of the header: max_var keeps what was assigned to it.
HeaderError(m, n, mv) ==
  /\ ParseError(m, n)
  /\ max_var' = mv
  /\ UNCHANGED <<header_text, ch, specified_clauses, num_clauses, clauses,
                 literals, tok>>

\* parse: the original can not be opened.
OpenError(m) == Die(m, 0) /\ UNCHANGED cnf

\* parse, up to the first character of the body: the file is opened (opened
\* is what exists_file and fopen find), then the comments before the
\* header, "p cnf ", the two numbers, white space up to the new line.
\*   pre: what ends the loop over the leading comment lines ("p", end of
\*        file, end of file inside a comment, another character);
\*   magic: whether " cnf " follows;
\*   v1, vt, vf: the first character, further digits and following
\*        character of the variable number; c1, ct, cf: of the clause number;
\*   nl: the first character after cf that is not white space, or the new line;
\*   b: the first character of the body.
ParseHeader(in) ==
  /\ pc = "header"
  /\ \E opened \in {"yes", "missing", "unreadable"}, pre \in {"p", EOF, "c", "x"} :
       IF opened = "missing" THEN OpenError("file '%s' does not exist")
       ELSE IF opened = "unreadable" THEN OpenError("can not read original CNF '%s'")
       ELSE IF pre = EOF THEN HeaderError("unexpected end-of-file before header", 0, max_var)
       ELSE IF pre = "c" THEN HeaderError("unexpected end-of-file in header comment", 0, max_var)
       ELSE IF pre # "p" THEN HeaderError("unexpected character", 0, max_var)
       ELSE \E magic \in BOOLEAN :
         IF ~magic THEN HeaderError("invalid DIMACS header", 0, max_var)
         ELSE \E v1 \in in.chars :
           IF ~isdigit(v1) THEN HeaderError("expected digit after 'p cnf '", 0, max_var)
           ELSE \E vt \in Tails(in.texts, v1) :
             LET mv == Accumulate(DigitVal(v1), vt) IN
             IF mv.over = "way" THEN HeaderError("variable number way too large", 0, mv.val)
             ELSE IF mv.over = "too" THEN HeaderError("variable number too large", 0, mv.val)
             ELSE \E vf \in (in.chars \cup {" "}) \ Digits :
               IF vf # " " THEN HeaderError("expected space after variable number", 0, mv.val)
               ELSE \E c1 \in in.chars :
                 IF ~isdigit(c1) THEN HeaderError("expected digit after 'p cnf %d'", mv.val, mv.val)
                 ELSE \E ct \in Tails(in.texts, c1) :
                   LET sc == Accumulate(DigitVal(c1), ct) IN
                   IF sc.over = "way" THEN HeaderError("clause number way too large", 0, mv.val)
                   ELSE IF sc.over = "too" THEN HeaderError("clause number too large", 0, mv.val)
                   ELSE \E cf \in in.chars \ Digits, nl \in {"\n", "x", EOF} :
                     IF ~(cf = "\n" \/ (space(cf) /\ nl = "\n"))
                     THEN HeaderError("expected white space before new line", 0, mv.val)
                     ELSE \E b \in in.chars :
                       /\ max_var' = mv.val
                       /\ specified_clauses' = sc.val
                       /\ header_text' = <<<<v1>> \o vt, <<c1>> \o ct>>
                       /\ ch' = b
                       /\ pc' = "body"
                       /\ UNCHANGED <<status, err, num_clauses, clauses, literals,
                                      tok>>
  /\ UNCHANGED <<options, maps, out, i, run2, rk>>

\* The number of literal tokens read so far.
RECURSIVE StoredTokens(_)
StoredTokens(cs) == IF cs = <<>> THEN 0 ELSE Len(Head(cs)) + StoredTokens(Tail(cs))
TokensRead == Len(literals) + StoredTokens(clauses)

\* The body loop, ch a white space character: the next character is read.
SkipSpace(in) ==
  /\ pc = "body"
  /\ space(ch)
  /\ \E c \in in.chars : ch' = c
  /\ tok' = <<>>
  /\ UNCHANGED <<pc, status, err, header_text, max_var, specified_clauses,
                 num_clauses, clauses, literals, options, maps, out, i, run2, rk>>

\* Fault: end of file never finds clauses missing.
ClausesMissing_never == FALSE

\* num_clauses < specified_clauses
ClausesMissing == num_clauses < specified_clauses

\* The text of the error for end of file with clauses missing.
MissingText == IF num_clauses + 1 = specified_clauses
               THEN "%d clause missing" ELSE "%d clauses missing"
\* The number printed by that error.
MissingNumber == num_clauses

\* The body loop, ch the end of the file.
EndOfFile ==
  /\ pc = "body"
  /\ ch = EOF
  /\ tok' = <<>>
  /\ IF Len(literals) # 0
     THEN ParseError("terminating zero missing", 0)
     ELSE IF ClausesMissing
     THEN ParseError(MissingText, MissingNumber)
     ELSE /\ pc' = "rank_variables"
          /\ UNCHANGED <<status, err>>
  /\ UNCHANGED <<header_text, ch, max_var, specified_clauses, num_clauses,
                 clauses, literals, options, maps, out, i, run2, rk>>

\* The body loop, ch = 'c': the comment is read up to its new line or the
\* end of the file.
SkipComment ==
  /\ pc = "body"
  /\ ch = "c"
  /\ \E c \in {"\n", EOF} : ch' = c
  /\ tok' = <<>>
  /\ UNCHANGED <<pc, status, err, header_text, max_var, specified_clauses,
                 num_clauses, clauses, literals, options, maps, out, i, run2, rk>>

\* Fault: the variable index max_var + 1 is let through.
ExceedsMaxVar_late(idx) == idx > max_var + 1

\* idx > max_var
ExceedsMaxVar(idx) == idx > max_var

\* Fault: the clause count is compared with > in place of ==.
TooManyClauses_late == num_clauses > specified_clauses

\* num_clauses == specified_clauses
TooManyClauses == num_clauses = specified_clauses

\* The body loop, any other ch: a literal is read. d is the character after
\* a '-', t the digits after the first one, f the character after the last.
ParseLiteral(in) ==
  /\ pc = "body"
  /\ ~space(ch) /\ ch # EOF /\ ch # "c"
  /\ TokensRead < in.tokens
  /\ \E d \in in.chars :
       /\ ch # "-" => d = ch
       /\ IF (ch = "-" /\ (~isdigit(d) \/ d = "0")) \/ (ch # "-" /\ ~isdigit(ch))
          THEN /\ ParseError(IF ch # "-" THEN "expected digit or '-'"
                             ELSE IF ~isdigit(d) THEN "expected digit after '-'"
                             ELSE "expected non-zer digit after '-'", 0)
               /\ ch' = d
               /\ tok' = <<>>
               /\ UNCHANGED <<num_clauses, clauses, literals>>
          ELSE \E t \in Tails(in.texts, d), f \in in.chars \ Digits :
            LET sign == IF ch = "-" THEN -1 ELSE 1
                n == Accumulate(DigitVal(d), t)
                idx == n.val
                lit == sign * idx
            IN
            /\ tok' = <<sign, idx>>
            /\ IF n.over # ""
               THEN /\ ParseError(IF n.over = "way" THEN "variable way too large"
                                  ELSE "variable too large", 0)
                    /\ ch' = Head(t)
                    /\ UNCHANGED <<num_clauses, clauses, literals>>
               ELSE /\ ch' = f
                    /\ IF ExceedsMaxVar(idx)
                       THEN /\ ParseError("maximum variable index exceeded", 0)
                            /\ UNCHANGED <<num_clauses, clauses, literals>>
                       ELSE IF ~space(f) /\ f # "c" /\ f # EOF
                       THEN /\ ParseError("unexpected character after literal", 0)
                            /\ UNCHANGED <<num_clauses, clauses, literals>>
                       ELSE IF TooManyClauses
                       THEN /\ ParseError("too many clauses", 0)
                            /\ UNCHANGED <<num_clauses, clauses, literals>>
                       ELSE IF lit # 0
                       THEN /\ literals' = Append(literals, lit)
                            /\ UNCHANGED <<pc, status, err, num_clauses, clauses>>
                       ELSE IF ~(num_clauses < specified_clauses)
                       THEN /\ pc' = "abort"
                            /\ UNCHANGED <<status, err, num_clauses, clauses,
                                           literals>>
                       ELSE /\ clauses' = Append(clauses, Append(literals, 0))
                            /\ num_clauses' = num_clauses + 1
                            /\ literals' = <<>>
                            /\ UNCHANGED <<pc, status, err>>
  /\ UNCHANGED <<header_text, max_var, specified_clauses, options, maps, out, i,
                 run2, rk>>

(* ------------------------------ scramble ------------------------------ *)

RECURSIVE Pow2(_)
Pow2(k) == IF k = 0 THEN 1 ELSE 2 * Pow2(k - 1)
\* The number of values of the narrowed generator state.
RandMod == Pow2(RandBits)

\* srand48 (seed): the state the generator is set to.
srand48(s) == s % RandMod
\* The state after one step of drand48: the linear congruential step of
\* libc with its multiplier 0x5DEECE66D and increment 0xB taken modulo RandMod.
\* The value drand48 returns is that state as the numerator of u / RandMod.
drand48(x) == (5 * x + 3) % RandMod

\* The states after each of n successive calls of drand48, from state x.
RECURSIVE Draws(_, _)
Draws(x, n) ==
  IF n = 0 THEN <<>> ELSE <<drand48(x)>> \o Draws(drand48(x), n - 1)

\* Fault: equal keys are ordered by descending index.
cmp_rank_descending(r, s) ==
  IF r.dst < s.dst THEN -1
  ELSE IF r.dst > s.dst THEN 1
  ELSE IF r.src > s.src THEN -1
  ELSE IF r.src < s.src THEN 1
  ELSE 0

\* cmp_rank (p, q)
cmp_rank(r, s) ==
  IF r.dst < s.dst THEN -1
  ELSE IF r.dst > s.dst THEN 1
  ELSE IF r.src < s.src THEN -1
  ELSE IF r.src > s.src THEN 1
  ELSE 0

\* qsort (ranks, n, sizeof *ranks, cmp_rank): the elements in ascending
\* order of cmp_rank, by insertion.
RECURSIVE Insert(_, _)
Insert(sorted, m) ==
  IF sorted = <<>> THEN <<m>>
  ELSE IF cmp_rank(m, Head(sorted)) < 0 THEN <<m>> \o sorted
  ELSE <<Head(sorted)>> \o Insert(Tail(sorted), m)
RECURSIVE qsort(_)
qsort(ranks) ==
  IF ranks = <<>> THEN <<>>
  ELSE Insert(qsort(SubSeq(ranks, 1, Len(ranks) - 1)), ranks[Len(ranks)])

\* Fault: the window is scaled by n even when the windows are absolute.
RankKey_scaled(k, n, permute, width, absolute, u) ==
  IF permute THEN u * n * 100
  ELSE k * 100 * RandMod + u * width * n

\* The sort key m->dst of index k in rank, for the draw u, in units of
\* 1 / (100 * RandMod): drand48 () * n, or k + drand48 () * width, the
\* latter product times n unless the windows are absolute.
RankKey(k, n, permute, width, absolute, u) ==
  IF permute THEN u * n * 100
  ELSE LET tmp == u * width
       IN  k * 100 * RandMod + (IF ~absolute THEN tmp * n ELSE tmp)

\* The array ranks of rank before it is sorted, for the draws us.
Ranks(n, permute, width, absolute, us) ==
  [k \in 1..n |->
     [src |-> k - 1, dst |-> RankKey(k - 1, n, permute, width, absolute, us[k])]]

\* The array rank returns for the draws us.
RankOf(n, permute, width, absolute, us) ==
  LET sorted == qsort(Ranks(n, permute, width, absolute, us))
  IN  [k \in 1..n |-> sorted[k].src]

\* rank (n, permute, width)
rank(n, permute, width) ==
  RankOf(n, permute, width, absolute_windows, Draws(srand48(seed), n))

\* The generator state rank and flip leave behind after n draws.
StateAfter(n) ==
  IF n = 0 THEN srand48(seed) ELSE Draws(srand48(seed), n)[n]

\* Fault: the probability 0 is not taken as "never".
FlipOf_strict(us) ==
  IF literal_flip_probability < 0 THEN [k \in 1..max_var |-> FALSE]
  ELSE IF literal_flip_probability >= 100 THEN [k \in 1..max_var |-> TRUE]
  ELSE [k \in 1..max_var |-> us[k] * 100 <= literal_flip_probability * RandMod]

\* The array flip returns for the draws us.
FlipOf(us) ==
  IF literal_flip_probability <= 0 THEN [k \in 1..max_var |-> FALSE]
  ELSE IF literal_flip_probability >= 100 THEN [k \in 1..max_var |-> TRUE]
  ELSE [k \in 1..max_var |-> us[k] * 100 <= literal_flip_probability * RandMod]

\* flip ()
flip == FlipOf(Draws(srand48(seed), max_var))

\* scramble, first line.
RankVariables ==
  /\ pc = "rank_variables"
  /\ variable_map' = rank(max_var, permute_variables, variable_move_window)
  /\ xsubi' = StateAfter(max_var)
  /\ pc' = "rank_clauses"
  /\ run2' = [run2 EXCEPT !.variable_map =
                RankOf(max_var, permute_variables, variable_move_window,
                       absolute_windows, Draws(srand48(run2.seed), max_var))]
  /\ UNCHANGED <<status, err, options, cnf, clause_map, flipped, out, i, rk>>

\* scramble, second line.
RankClauses ==
  /\ pc = "rank_clauses"
  /\ clause_map' = rank(num_clauses, permute_clauses, clause_move_window)
  /\ xsubi' = StateAfter(num_clauses)
  /\ pc' = "flip"
  /\ run2' = [run2 EXCEPT !.clause_map =
                RankOf(num_clauses, permute_clauses, clause_move_window,
                       absolute_windows, Draws(srand48(run2.seed), num_clauses))]
  /\ UNCHANGED <<status, err, options, cnf, variable_map, flipped, out, i, rk>>

\* scramble, third line.
Flip ==
  /\ pc = "flip"
  /\ flipped' = flip
  /\ xsubi' = IF 0 < literal_flip_probability /\ literal_flip_probability < 100
              THEN StateAfter(max_var) ELSE srand48(seed)
  /\ pc' = "print"
  /\ run2' = [run2 EXCEPT !.flipped = FlipOf(Draws(srand48(run2.seed), max_var))]
  /\ UNCHANGED <<status, err, options, cnf, variable_map, clause_map, out, i, rk>>

(* ------------------------------- print -------------------------------- *)

abs(x) == IF x < 0 THEN -x ELSE x

\* Fault: the banner and the header are written before the destination is
\* looked at.
PrintOpen_early ==
  /\ pc = "print"
  /\ \E exists, writable \in BOOLEAN :
       /\ scrambled = NoPath => exists /\ writable
       /\ out' = out \o <<Banner,
                           [kind |-> "p", nums |-> <<max_var, num_clauses>>]>>
       /\ IF scrambled # NoPath /\ exists /\ ~force
          THEN /\ Die("path '%s' exist (use '--force')", 0)
               /\ UNCHANGED i
          ELSE IF scrambled # NoPath /\ ~writable
          THEN /\ Die("can not write scrambled CNF '%s'", 0)
               /\ UNCHANGED i
          ELSE /\ i' = 0
               /\ pc' = "emit"
               /\ UNCHANGED <<status, err>>
  /\ UNCHANGED <<options, cnf, maps, run2, rk>>

\* print: the destination is opened and the banner and the header are
\* written. exists and writable are what stat and fopen find.
PrintOpen ==
  /\ pc = "print"
  /\ \E exists, writable \in BOOLEAN :
       /\ scrambled = NoPath => exists /\ writable
       /\ IF scrambled # NoPath /\ exists /\ ~force
          THEN /\ Die("path '%s' exist (use '--force')", 0)
               /\ UNCHANGED <<out, i>>
          ELSE IF scrambled # NoPath /\ ~writable
          THEN /\ Die("can not write scrambled CNF '%s'", 0)
               /\ UNCHANGED <<out, i>>
          ELSE /\ out' = out \o <<Banner,
                                  [kind |-> "p", nums |-> <<max_var, num_clauses>>]>>
               /\ i' = 0
               /\ pc' = "emit"
               /\ UNCHANGED <<status, err>>
  /\ UNCHANGED <<options, cnf, maps, run2, rk>>

\* The index of the clause printed at position k, and whether the
\* assertions on it hold.
SourceClause(k) ==
  LET j == clause_map[k + 1]
  IN  IF reverse_clauses THEN num_clauses - 1 - j ELSE j
ClauseAsserts(j) == 0 <= j /\ j < num_clauses

\* The variable index looked up for the literal src, the number printed for
\* it, and whether the assertions on them hold.
LiteralIndex(src) ==
  IF reverse_variables THEN max_var + 1 - abs(src) ELSE abs(src)
LiteralAsserts(src) ==
  LET idx == LiteralIndex(src)
  IN  /\ 1 <= idx /\ idx <= max_var
      /\ 1 <= variable_map[idx] + 1 /\ variable_map[idx] + 1 <= max_var
\* Fault: the sign of the literal is lost.
PrintedLiteral_unsigned(src) ==
  LET idx == LiteralIndex(src)
      dst == variable_map[idx] + 1
  IN  IF flipped[idx] THEN -dst ELSE dst

PrintedLiteral(src) ==
  LET idx == LiteralIndex(src)
      dst == variable_map[idx] + 1
      signed == IF src < 0 THEN -dst ELSE dst
  IN  IF flipped[idx] THEN -signed ELSE signed

\* The loop over the literals of a clause, up to its zero.
RECURSIVE PrintedLiterals(_)
PrintedLiterals(p) ==
  IF Head(p) = 0 THEN <<>>
  ELSE <<PrintedLiteral(Head(p))>> \o PrintedLiterals(Tail(p))
RECURSIVE LiteralsAssert(_)
LiteralsAssert(p) ==
  Head(p) = 0 \/ (LiteralAsserts(Head(p)) /\ LiteralsAssert(Tail(p)))

\* print: one turn of the loop over the clauses.
PrintClause ==
  /\ pc = "emit"
  /\ i < num_clauses
  /\ LET j == SourceClause(i) IN
     IF ~ClauseAsserts(j) \/ ~LiteralsAssert(clauses[j + 1])
     THEN /\ pc' = "abort"
          /\ UNCHANGED <<out, i>>
     ELSE /\ out' = Append(out, [kind |-> "l",
                                 nums |-> Append(PrintedLiterals(clauses[j + 1]), 0)])
          /\ i' = i + 1
          /\ pc' = pc
  /\ UNCHANGED <<status, err, options, cnf, maps, run2, rk>>

\* print: the end of the loop; reset; main returns 0.
PrintClose ==
  /\ pc = "emit"
  /\ i = num_clauses
  /\ pc' = "exit"
  /\ status' = 0
  /\ UNCHANGED <<err, options, cnf, maps, out, i, run2, rk>>

(* --------------------------- specifications --------------------------- *)

\* main, on every command line and the smaller input.
Next ==
  \/ InitArgs(AllArgs)
  \/ ParseHeader(SmallInput)
  \/ SkipSpace(SmallInput)
  \/ SkipComment
  \/ ParseLiteral(SmallInput)
  \/ EndOfFile
  \/ RankVariables
  \/ RankClauses
  \/ Flip
  \/ PrintOpen
  \/ PrintClause
  \/ PrintClose
Spec == Init /\ [][Next]_vars

\* main, on a few command lines and the richer input.
NextInput ==
  \/ InitArgs(FewArgs)
  \/ ParseHeader(RichInput)
  \/ SkipSpace(RichInput)
  \/ SkipComment
  \/ ParseLiteral(RichInput)
  \/ EndOfFile
  \/ RankVariables
  \/ RankClauses
  \/ Flip
  \/ PrintOpen
  \/ PrintClause
  \/ PrintClose
SpecInput == Init /\ [][NextInput]_vars

\* The windows the rank generator is tried on in isolation, in hundredths.
RankWidths == {0, 50, 150, 400}

\* rank on its own: any n, mode, window and draws.
InitRank ==
  /\ InitMain
  /\ \E n \in 0..MaxN :
       rk \in [phase : {"in"}, n : {n}, permute : BOOLEAN, width : RankWidths,
               absolute : BOOLEAN, us : [1..n -> 0..(RandMod - 1)],
               res : {<<>>}]
RankAlone ==
  /\ rk.phase = "in"
  /\ rk' = [rk EXCEPT !.phase = "out",
                      !.res = RankOf(rk.n, rk.permute, rk.width, rk.absolute, rk.us)]
  /\ UNCHANGED <<pc, status, err, options, cnf, maps, out, i, run2>>
NextRank == RankAlone
SpecRank == InitRank /\ [][NextRank]_vars

(* ------------------------------ properties ---------------------------- *)

\* main has returned 0.
Done == pc = "exit" /\ status = 0
\* scramble has returned.
MapsDone == pc \in {"print", "emit"} \/ Done
\* parse has returned.
Parsed ==
  \/ pc \in {"rank_variables", "rank_clauses", "flip", "print", "emit"}
  \/ Done
  \/ (pc = "exit" /\ err.msg \in {"path '%s' exist (use '--force')",
                                   "can not write scrambled CNF '%s'"})

\* The lines of a kind written to the destination, in order.
LinesOf(kind) == SelectSeq(out, LAMBDA l : l.kind = kind)
ClauseLines == LinesOf("l")

\* The one-to-one maps of 1..n onto itself.
Perms(n) == {f \in [1..n -> 1..n] : \A a, b \in 1..n : f[a] = f[b] => a = b}
Identity(n) == [k \in 1..n |-> k - 1]
\* A stored clause without its zero.
Body(clause) == SubSeq(clause, 1, Len(clause) - 1)
\* The value of a decimal text.
RECURSIVE Decimal(_)
Decimal(text) ==
  IF text = <<>> THEN 0
  ELSE 10 * Decimal(SubSeq(text, 1, Len(text) - 1)) + DigitVal(text[Len(text)])

\* The renaming of section 4.4, with indices from 1: output position k
\* takes source clause Sigma[k], variable v becomes Pi[v], and its sign
\* changes when Phi[v] = -1.
Rev(v) == IF reverse_variables THEN max_var + 1 - v ELSE v
Sigma == [k \in 1..num_clauses |->
            IF reverse_clauses THEN num_clauses - clause_map[k]
            ELSE clause_map[k] + 1]
Pi == [v \in 1..max_var |-> variable_map[Rev(v)] + 1]
Phi == [v \in 1..max_var |-> IF flipped[Rev(v)] THEN -1 ELSE 1]
Renamed(lits) ==
  [k \in 1..Len(lits) |->
     (IF lits[k] < 0 THEN -1 ELSE 1) * Phi[abs(lits[k])] * Pi[abs(lits[k])]]

\* C1: when main has returned 0, the clause lines are the input up to
\* renaming: Sigma is one-to-one on the clause indices, Pi is one-to-one on
\* the variables, and line k holds exactly the literals of source clause
\* Sigma[k], in their order, each variable v renamed to Pi[v] with its sign
\* kept or changed as Phi[v] says, the same in every clause, then a zero.
C1_UpToRenaming ==
  Done =>
    /\ Len(ClauseLines) = num_clauses
    /\ Sigma \in Perms(num_clauses)
    /\ Pi \in Perms(max_var)
    /\ \A k \in 1..num_clauses :
         ClauseLines[k].nums = Append(Renamed(Body(clauses[Sigma[k]])), 0)
\* C1: a run that reversed the variables, moved a clause, flipped a
\* variable and printed a negative literal.
C1_Witness ==
  /\ Done
  /\ reverse_variables
  /\ num_clauses = 2
  /\ clause_map = <<1, 0>>
  /\ clauses[1] # clauses[2]
  /\ \E v \in 1..max_var : flipped[v]
  /\ \E c \in 1..num_clauses : \E k \in 1..Len(clauses[c]) : clauses[c][k] < 0

\* The options of the round trip: -f 0 -v 0 -c 0 and none of -p -P -r -R.
IdentityOptions ==
  /\ literal_flip_probability = 0
  /\ variable_move_window = 0
  /\ clause_move_window = 0
  /\ ~reverse_variables /\ ~reverse_clauses
  /\ ~permute_variables /\ ~permute_clauses

\* C2: with the options of the round trip, when main has returned 0 the
\* clause lines are the clauses of the input, in the same order with the
\* same literals in the same order and signs; both maps are the identity
\* and no variable is flipped.
C2_RoundTrip ==
  (Done /\ IdentityOptions) =>
    /\ [k \in 1..Len(ClauseLines) |-> ClauseLines[k].nums] = clauses
    /\ variable_map = Identity(max_var)
    /\ clause_map = Identity(num_clauses)
    /\ \A v \in 1..max_var : ~flipped[v]
\* C2: a round trip of two different clauses over two variables.
C2_Witness ==
  /\ Done /\ IdentityOptions
  /\ max_var = 2 /\ num_clauses = 2
  /\ clauses[1] # clauses[2]
  /\ \E c \in 1..2 : Len(clauses[c]) > 1

\* The sort key of index k in the isolated run of rank.
KeyAlone(k) == RankKey(k, rk.n, rk.permute, rk.width, rk.absolute, rk.us[k + 1])

\* C3: the array rank returns has length n, holds every value of 0..n-1
\* exactly once, and is in ascending order of the sort keys, equal keys in
\* ascending order of the index; in both modes, for every window and draws.
C3_Bijective ==
  rk.phase = "out" =>
    /\ Len(rk.res) = rk.n
    /\ \A v \in 0..(rk.n - 1) : Cardinality({p \in 1..rk.n : rk.res[p] = v}) = 1
    /\ \A p, q \in 1..rk.n :
         p < q => \/ KeyAlone(rk.res[p]) < KeyAlone(rk.res[q])
                  \/ /\ KeyAlone(rk.res[p]) = KeyAlone(rk.res[q])
                     /\ rk.res[p] < rk.res[q]
\* C3: a windowed run in which two indices got the same key and another
\* pair changed places.
C3_Witness ==
  /\ rk.phase = "out"
  /\ ~rk.permute
  /\ \E a, b \in 0..(rk.n - 1) : a < b /\ KeyAlone(a) = KeyAlone(b)
  /\ \E p \in 1..rk.n : rk.res[p] # p - 1

C5_CountsPreserved ==
  Done =>
    /\ LinesOf("p") = << [kind |-> "p",
                          nums |-> <<Decimal(header_text[1]),
                                     Decimal(header_text[2])>>] >>
    /\ Len(ClauseLines) = Decimal(header_text[2])
    /\ \A k \in 1..Len(ClauseLines) :
         ClauseLines[k].nums[Len(ClauseLines[k].nums)] = 0
    /\ \A k \in 1..Len(out) :
         /\ out[k].kind = "c" => k < Len(out) - Len(ClauseLines)
         /\ out[k].kind = "p" => k = Len(out) - Len(ClauseLines)
\* C5: a run on a header declaring two variables and two clauses.
C5_Witness ==
  /\ Done
  /\ Decimal(header_text[1]) = 2
  /\ Decimal(header_text[2]) = 2
  /\ \E c \in 1..2 : Len(clauses[c]) > 1

\* A step of the body loop that read the well-formed token 0.
ReadsZero ==
  /\ pc = "body"
  /\ tok' = <<1, 0>>
  /\ space(ch') \/ ch' = "c" \/ ch' = EOF
\* C6: parse returns only at the end of the file with no literal pending
\* and as many clauses stored as declared; the stored clauses never exceed
\* the declared ones (the assertion before the store holds); at the end of
\* the file, pending literals are the error "terminating zero missing" and
\* otherwise too few clauses are the missing-clauses error; a zero read
\* when all declared clauses are stored is not stored and is the error
\* "too many clauses".
C6_ClauseCount ==
  /\ [](/\ Parsed => (ch = EOF /\ literals = <<>> /\ num_clauses = specified_clauses)
        /\ num_clauses <= specified_clauses
        /\ Len(clauses) = num_clauses
        /\ pc # "abort")
  /\ [][ /\ (pc = "body" /\ ch = EOF /\ literals # <<>>)
            => (pc' = "exit" /\ status' = 1 /\ err'.msg = "terminating zero missing")
         /\ (pc = "body" /\ ch = EOF /\ literals = <<>>
               /\ num_clauses < specified_clauses)
            => (pc' = "exit" /\ status' = 1
                 /\ err'.msg \in {"%d clause missing", "%d clauses missing"})
         /\ (ReadsZero /\ num_clauses = specified_clauses)
            => (pc' = "exit" /\ status' = 1 /\ err'.msg = "too many clauses"
                 /\ clauses' = clauses /\ num_clauses' = num_clauses) ]_vars
\* C6: a zero read after the one declared clause, refused.
C6_Witness ==
  /\ pc = "exit"
  /\ err.msg = "too many clauses"
  /\ tok = <<1, 0>>
  /\ specified_clauses = 1
  /\ num_clauses = 1

\* C7: the number in the missing-clauses error is the number of clauses
\* missing, the declared ones less the ones read.
C7_ReportsMissing ==
  (pc = "exit" /\ err.msg \in {"%d clause missing", "%d clauses missing"})
    => err.num = specified_clauses - num_clauses

InRange(lit) == lit # 0 /\ 1 <= abs(lit) /\ abs(lit) <= max_var
\* C9: no assertion fails; every stored literal is nonzero with
\* 1 <= |lit| <= max_var, every stored clause ending in its zero; and once
\* the maps are there, for every clause position the source clause index is
\* in 0..num_clauses-1, every variable index looked up is in 1..max_var,
\* and every number printed has its magnitude in 1..max_var.
C9_AssertionsHold ==
  /\ pc # "abort"
  /\ \A k \in 1..Len(literals) : InRange(literals[k])
  /\ \A c \in 1..Len(clauses) :
       /\ clauses[c][Len(clauses[c])] = 0
       /\ \A k \in 1..(Len(clauses[c]) - 1) : InRange(clauses[c][k])
  /\ MapsDone =>
       /\ \A k \in 1..num_clauses : 0 <= Sigma[k] - 1 /\ Sigma[k] - 1 < num_clauses
       /\ \A v \in 1..max_var : 1 <= Rev(v) /\ Rev(v) <= max_var
       /\ \A v \in 1..max_var : 1 <= Pi[v] /\ Pi[v] <= max_var
       /\ \A l \in 1..Len(ClauseLines) :
            \A k \in 1..(Len(ClauseLines[l].nums) - 1) :
              InRange(ClauseLines[l].nums[k])
\* C9: a clause printed with both reversals, holding the largest variable.
C9_Witness ==
  /\ pc = "emit"
  /\ i > 0
  /\ reverse_variables /\ reverse_clauses
  /\ max_var = 2
  /\ \E c \in 1..num_clauses : \E k \in 1..Len(clauses[c]) : abs(clauses[c][k]) = max_var

\* The effective window of the isolated run, in hundredths.
EffectiveWidth == IF rk.absolute THEN rk.width ELSE rk.width * rk.n
\* The position of index v in the array returned.
PositionOf(v) == CHOOSE p \in 1..rk.n : rk.res[p] = v
\* C10: in windowed mode, two indices at least the effective window apart
\* keep their order in the array rank returns.
C10_Locality ==
  (rk.phase = "out" /\ ~rk.permute) =>
    \A a, b \in 0..(rk.n - 1) :
      (a < b /\ (b - a) * 100 >= EffectiveWidth) => PositionOf(a) < PositionOf(b)
\* C10: a windowed run with a positive window in which two neighbours
\* changed places and two indices a window apart did not.
C10_Witness ==
  /\ rk.phase = "out" /\ ~rk.permute
  /\ EffectiveWidth > 0
  /\ \E a, b \in 0..(rk.n - 1) : a < b /\ (b - a) * 100 >= EffectiveWidth
  /\ \E a, b \in 0..(rk.n - 1) : a < b /\ PositionOf(a) > PositionOf(b)

====
